---- MODULE Spec2Model ----
(***************************************************************************)
(* Model of xindiantu1/app.py: the current-determination rule              *)
(* (determine_current), the colour lookup (get_current_color) and the      *)
(* classification loop and interval scan of create_eeg_plot.               *)
(*                                                                         *)
(* Numbers.  Voltage, frequency and duration are fixed-point values in     *)
(* thousandths of their unit (Fx(100) is 100.0, Fx(100) - 1 is 99.999),    *)
(* so that the comparisons of the code are exact.  Current levels are in   *)
(* tenths of a mA (15 is 1.5 mA).  Times are integers.                     *)
(***************************************************************************)
EXTENDS Integers, Sequences, FiniteSets

VARIABLES df, current_values, current_col, pc, j, i, current_start,
          vrects, run, prev_vrects, prev_col

vars == <<df, current_values, current_col, pc, j, i, current_start,
          vrects, run, prev_vrects, prev_col>>

-----------------------------------------------------------------------------
(* Bounds *)

MaxLen == 5
MaxTime == 4
MaxRuns == 2
MaxClassifyRows == 1

-----------------------------------------------------------------------------
(* Values *)

Fx(x) == x * 1000

NONE == 0
LOW == 10
MEDIUM == 15
HIGH == 20

Levels == {NONE, LOW, MEDIUM, HIGH}

\* current_start is None, or <<t>> when it holds the time t
None == <<>>

-----------------------------------------------------------------------------
(* determine_current, app.py 10-18 *)

determine_current_no_voltage_1a(voltage, freq, duration) ==
    IF (freq > Fx(20) /\ duration > Fx(10))
       \/ (freq > Fx(50) /\ duration > Fx(10))
       \/ (freq > Fx(70) /\ voltage > Fx(200))
    THEN HIGH
    ELSE IF Fx(100) <= voltage /\ voltage < Fx(200)
    THEN MEDIUM
    ELSE IF Fx(50) <= voltage /\ voltage < Fx(100)
    THEN LOW
    ELSE NONE

determine_current_strict_100(voltage, freq, duration) ==
    IF (freq > Fx(20) /\ voltage > Fx(200) /\ duration > Fx(10))
       \/ (freq > Fx(50) /\ duration > Fx(10))
       \/ (freq > Fx(70) /\ voltage > Fx(200))
    THEN HIGH
    ELSE IF Fx(100) < voltage /\ voltage < Fx(200)
    THEN MEDIUM
    ELSE IF Fx(50) <= voltage /\ voltage < Fx(100)
    THEN LOW
    ELSE NONE

determine_current_no_1b(voltage, freq, duration) ==
    IF (freq > Fx(20) /\ voltage > Fx(200) /\ duration > Fx(10))
       \/ (freq > Fx(70) /\ voltage > Fx(200))
    THEN HIGH
    ELSE IF Fx(100) <= voltage /\ voltage < Fx(200)
    THEN MEDIUM
    ELSE IF Fx(50) <= voltage /\ voltage < Fx(100)
    THEN LOW
    ELSE NONE

determine_current(voltage, freq, duration) ==
    IF (freq > Fx(20) /\ voltage > Fx(200) /\ duration > Fx(10))
       \/ (freq > Fx(50) /\ duration > Fx(10))
       \/ (freq > Fx(70) /\ voltage > Fx(200))
    THEN HIGH
    ELSE IF Fx(100) <= voltage /\ voltage < Fx(200)
    THEN MEDIUM
    ELSE IF Fx(50) <= voltage /\ voltage < Fx(100)
    THEN LOW
    ELSE NONE

-----------------------------------------------------------------------------
(* get_current_color, app.py 88-93 *)

get_current_color_no_orange(current) ==
    IF current = HIGH THEN "#ff0000"
    ELSE IF current = LOW THEN "#ffff00"
    ELSE "#ffffff"

get_current_color(current) ==
    IF current = HIGH THEN "#ff0000"
    ELSE IF current = MEDIUM THEN "#ffa500"
    ELSE IF current = LOW THEN "#ffff00"
    ELSE "#ffffff"

-----------------------------------------------------------------------------
(* The sample table *)

Row(t, v, f, d) == [time |-> t, voltage |-> v, freq |-> f, duration |-> d]

\* (voltage, freq, duration) of the rows of the tables the scan is run on
SampleKinds ==
    { <<0, 0, 0>>,
      <<Fx(60), 0, 0>>,
      <<Fx(150), Fx(25), Fx(11)>>,
      <<0 - Fx(120), Fx(60), Fx(11)>> }

\* inputs of the classifier
VoltSet == { 0 - Fx(120), 0, Fx(50) - 1, Fx(50), Fx(100) - 1, Fx(100),
             Fx(150), Fx(200) - 1, Fx(200), Fx(200) + 1 }
FreqSet == { 0, Fx(20), Fx(25), Fx(50), Fx(50) + 1, Fx(70), Fx(70) + 1 }
DurSet == { 0, Fx(10), Fx(11) }

MaxOf(S) == CHOOSE m \in S : \A x \in S : x <= m

RECURSIVE SortedSeq(_)
SortedSeq(S) ==
    IF S = {} THEN <<>>
    ELSE LET m == MaxOf(S) IN Append(SortedSeq(S \ {m}), m)

StrictlyIncreasing(d) ==
    \A k \in 1..(Len(d) - 1) : d[k].time < d[k + 1].time

-----------------------------------------------------------------------------
(* create_eeg_plot, app.py 22-85 *)

\* rows selected by (time >= current_start) & (time < row time), line 62
WindowExclusiveStart(start, end) ==
    { k \in 1..Len(df) : df[k].time > start /\ df[k].time < end }

Window(start, end) ==
    { k \in 1..Len(df) : df[k].time >= start /\ df[k].time < end }

WindowLevels(start, end) == { current_col[k] : k \in Window(start, end) }

\* max(df.loc[..., current column]), line 62
SelectedAtStart(start, end) ==
    MaxOf({ current_col[k] : k \in { n \in 1..Len(df) : df[n].time = start } })

SelectedMax(start, end) == MaxOf(WindowLevels(start, end))

\* lines 53-55: an active row opens an interval unless one is open
OpenIntervalAlways(time) == <<time>>

OpenInterval(time) == IF current_start = None THEN <<time>> ELSE current_start

\* line 66: the start is cleared after the interval is added
KeepStart == current_start

ResetStart == None

Vrect(x0, x1, level) ==
    [x0 |-> x0, x1 |-> x1, level |-> level, fillcolor |-> get_current_color(level)]

FreshCall ==
    /\ current_values = <<>>
    /\ j = 1
    /\ i = 1
    /\ pc = "classify"
    /\ current_start = None
    /\ vrects = <<>>

Init ==
    /\ \E S \in SUBSET (0..MaxTime) :
         /\ Cardinality(S) <= MaxLen
         /\ \E ks \in [1..Cardinality(S) -> SampleKinds] :
              df = [k \in 1..Cardinality(S) |->
                      Row(SortedSeq(S)[k], ks[k][1], ks[k][2], ks[k][3])]
    /\ current_col = <<>>
    /\ FreshCall
    /\ run = 1
    /\ prev_vrects = <<>>
    /\ prev_col = <<>>

InitClassify ==
    /\ \E n \in 1..MaxClassifyRows :
         \E vs \in [1..n -> VoltSet], fs \in [1..n -> FreqSet], ds \in [1..n -> DurSet] :
              df = [k \in 1..n |-> Row(k - 1, vs[k], fs[k], ds[k])]
    /\ current_col = <<>>
    /\ FreshCall
    /\ run = 1
    /\ prev_vrects = <<>>
    /\ prev_col = <<>>

\* lines 36-38: one iteration of the classification loop
ClassifyRow ==
    /\ pc = "classify"
    /\ j <= Len(df)
    /\ current_values' = Append(current_values,
           determine_current(df[j].voltage, df[j].freq, df[j].duration))
    /\ j' = j + 1
    /\ UNCHANGED <<df, current_col, pc, i, current_start, vrects, run,
                   prev_vrects, prev_col>>

\* lines 39-50: the column is stored, the scan state is initialised
AssignColumn ==
    /\ pc = "classify"
    /\ j > Len(df)
    /\ current_col' = current_values
    /\ current_start' = None
    /\ i' = 1
    /\ pc' = "scan"
    /\ UNCHANGED <<df, current_values, j, vrects, run, prev_vrects, prev_col>>

\* lines 51-66: one iteration of the scan
ScanRow ==
    /\ pc = "scan"
    /\ i <= Len(df)
    /\ LET current == current_col[i]
           time == df[i].time
       IN IF current > 0
          THEN /\ current_start' = OpenInterval(time)
               /\ i' = i + 1
               /\ UNCHANGED <<pc, vrects>>
          ELSE IF current_start # None
          THEN IF WindowLevels(current_start[1], time) = {}
               THEN \* max() of an empty selection raises ValueError
                    /\ pc' = "error"
                    /\ UNCHANGED <<i, current_start, vrects>>
               ELSE /\ vrects' = Append(vrects,
                          Vrect(current_start[1], time,
                                SelectedMax(current_start[1], time)))
                    /\ current_start' = ResetStart
                    /\ i' = i + 1
                    /\ UNCHANGED pc
          ELSE /\ i' = i + 1
               /\ UNCHANGED <<pc, current_start, vrects>>
    /\ UNCHANGED <<df, current_values, current_col, j, run, prev_vrects, prev_col>>

\* lines 68-85: end of the scan loop, the figure is returned
ScanEndFlush ==
    /\ pc = "scan"
    /\ i > Len(df)
    /\ pc' = "done"
    /\ vrects' = IF current_start # None
                 THEN Append(vrects,
                        Vrect(current_start[1], df[Len(df)].time + 1,
                              MaxOf(WindowLevels(current_start[1], df[Len(df)].time + 1))))
                 ELSE vrects
    /\ UNCHANGED <<df, current_values, current_col, j, i, current_start, run,
                   prev_vrects, prev_col>>

ScanEnd ==
    /\ pc = "scan"
    /\ i > Len(df)
    /\ pc' = "done"
    /\ UNCHANGED <<df, current_values, current_col, j, i, current_start, vrects,
                   run, prev_vrects, prev_col>>

\* create_eeg_plot is called again on the table it has already annotated:
\* a new figure (line 23), a new list (line 35)
RerunSharedFigure ==
    /\ pc = "done"
    /\ run < MaxRuns
    /\ run' = run + 1
    /\ prev_vrects' = vrects
    /\ prev_col' = current_col
    /\ current_values' = <<>>
    /\ j' = 1
    /\ pc' = "classify"
    /\ UNCHANGED <<df, current_col, i, current_start, vrects>>

Rerun ==
    /\ pc = "done"
    /\ run < MaxRuns
    /\ run' = run + 1
    /\ prev_vrects' = vrects
    /\ prev_col' = current_col
    /\ vrects' = <<>>
    /\ current_values' = <<>>
    /\ j' = 1
    /\ pc' = "classify"
    /\ UNCHANGED <<df, current_col, i, current_start>>

Next ==
    \/ ClassifyRow
    \/ AssignColumn
    \/ ScanRow
    \/ ScanEnd
    \/ Rerun

Spec == Init /\ [][Next]_vars

\* the loops run on: the script is single-threaded and synchronous
FairSpec == Spec /\ WF_vars(Next)

NextClassify ==
    \/ ClassifyRow
    \/ AssignColumn

SpecClassify == InitClassify /\ [][NextClassify]_vars

-----------------------------------------------------------------------------
(* Properties of determine_current, checked under SpecClassify *)

Classified == 1..Len(current_values)

HighRule(v, f, d) ==
    \/ (f > Fx(20) /\ v > Fx(200) /\ d > Fx(10))
    \/ (f > Fx(50) /\ d > Fx(10))
    \/ (f > Fx(70) /\ v > Fx(200))

MediumRange(v) == Fx(100) <= v /\ v < Fx(200)

LowRange(v) == Fx(50) <= v /\ v < Fx(100)

\* C1: every classified row holds exactly one of the four levels, decided by
\* first-match rule order: HIGH iff one of the three HIGH conditions holds,
\* otherwise MEDIUM iff 100 <= voltage < 200, otherwise LOW iff
\* 50 <= voltage < 100, otherwise NONE; at frequency 0 and duration 0,
\* voltage 100 gives MEDIUM, 99.999 gives LOW and 200 gives NONE.
C1_RuleOrder ==
    \A k \in Classified :
        LET v == df[k].voltage
            f == df[k].freq
            d == df[k].duration
            c == current_values[k]
        IN /\ c \in Levels
           /\ (c = HIGH) <=> HighRule(v, f, d)
           /\ (c = MEDIUM) <=> (~HighRule(v, f, d) /\ MediumRange(v))
           /\ (c = LOW) <=> (~HighRule(v, f, d) /\ ~MediumRange(v) /\ LowRange(v))
           /\ (c = NONE) <=> (~HighRule(v, f, d) /\ ~MediumRange(v) /\ ~LowRange(v))
           /\ (f = 0 /\ d = 0 /\ v = Fx(100)) => c = MEDIUM
           /\ (f = 0 /\ d = 0 /\ v = Fx(100) - 1) => c = LOW
           /\ (f = 0 /\ d = 0 /\ v = Fx(200)) => c = NONE

C1_Witness ==
    \E k \in Classified :
        /\ df[k].voltage = Fx(100) /\ df[k].freq = 0 /\ df[k].duration = 0
        /\ current_values[k] = MEDIUM

IsExample150(k) ==
    df[k].voltage = Fx(150) /\ df[k].freq = Fx(25) /\ df[k].duration = Fx(11)

\* C2 as stated: the sample (voltage 150, frequency 25, duration 11) is
\* classified HIGH.
C2_Example_High ==
    \A k \in Classified : IsExample150(k) => current_values[k] = HIGH

\* C2 as amended: the sample (voltage 150, frequency 25, duration 11) is
\* classified MEDIUM, because rule 1a requires voltage > 200 and no other
\* HIGH condition holds.
C2_Example_Medium ==
    \A k \in Classified :
        IsExample150(k) =>
            /\ ~HighRule(df[k].voltage, df[k].freq, df[k].duration)
            /\ current_values[k] = MEDIUM

C2_Witness ==
    \E k \in Classified : IsExample150(k) /\ current_values[k] = MEDIUM

\* C3 as stated: every sample with a negative voltage is classified NONE.
C3_Negative_None ==
    \A k \in Classified : df[k].voltage < 0 => current_values[k] = NONE

\* C3 as amended: a sample with a negative voltage is classified HIGH when
\* frequency > 50 and duration > 10 (rule 1b, which has no voltage
\* condition), and NONE otherwise; never LOW or MEDIUM.
C3_Negative_None_Or_1b ==
    \A k \in Classified :
        df[k].voltage < 0 =>
            current_values[k] =
                IF df[k].freq > Fx(50) /\ df[k].duration > Fx(10) THEN HIGH ELSE NONE

C3_Witness ==
    \E k \in Classified :
        /\ df[k].voltage < 0 /\ df[k].freq > Fx(50) /\ df[k].duration > Fx(10)
        /\ current_values[k] = HIGH

-----------------------------------------------------------------------------
(* Properties of the interval scan, checked under Spec *)

\* number of rows the scan of the current call has gone through
Processed ==
    IF pc = "scan" THEN i - 1 ELSE IF pc = "done" THEN Len(df) ELSE 0

\* NONE rows among the first n whose immediate predecessor is active
Closings(n) ==
    { k \in 2..n : current_col[k] = NONE /\ current_col[k - 1] > 0 }

RowAt(t) == CHOOSE k \in 1..Len(df) : df[k].time = t

IsExampleTable ==
    /\ Len(df) = 5
    /\ \A k \in 1..5 : df[k].time = k - 1
    /\ current_col = <<NONE, LOW, MEDIUM, NONE, HIGH>>

\* C4: after any prefix of the scan the number of emitted intervals is the
\* number of NONE rows gone through whose predecessor is active, and each
\* interval ends at such a row; when the last row is active the run it
\* belongs to has produced no interval at the end of the scan; the example
\* table yields exactly the interval (1, 3, MEDIUM).
C4_EmitOnlyOnNone ==
    /\ pc \in {"scan", "done"} =>
          /\ Len(vrects) = Cardinality(Closings(Processed))
          /\ \A n \in 1..Len(vrects) :
                \E k \in Closings(Processed) : vrects[n].x1 = df[k].time
    /\ (pc = "done" /\ Len(df) > 0 /\ current_col[Len(df)] > 0) =>
          /\ current_start # None
          /\ \A n \in 1..Len(vrects) : vrects[n].x1 < current_start[1]
    /\ (pc = "done" /\ IsExampleTable) =>
          /\ Len(vrects) = 1
          /\ vrects[1].x0 = 1 /\ vrects[1].x1 = 3 /\ vrects[1].level = MEDIUM

C4_Witness ==
    /\ pc = "done"
    /\ IsExampleTable
    /\ Len(vrects) = 1
    /\ current_start = <<4>>

Max2(a, b) == IF a >= b THEN a ELSE b

\* the peak an OPEN state holds after rows from..to: the opening row's level,
\* then max with every later active row
RECURSIVE RunningPeak(_, _)
RunningPeak(from, to) ==
    IF to <= from THEN current_col[from]
    ELSE IF current_col[to] # NONE
         THEN Max2(RunningPeak(from, to - 1), current_col[to])
         ELSE RunningPeak(from, to - 1)

\* C5: the level that colours an emitted interval is the greatest level of
\* the rows positioned from the opening row up to the row before the closing
\* row, and is the running peak of those rows.
C5_PeakIsRunningMax ==
    \A n \in 1..Len(vrects) :
        LET a == RowAt(vrects[n].x0)
            b == RowAt(vrects[n].x1)
        IN /\ a < b
           /\ \A k \in a..(b - 1) : current_col[k] <= vrects[n].level
           /\ \E k \in a..(b - 1) : current_col[k] = vrects[n].level
           /\ vrects[n].level = RunningPeak(a, b - 1)

C5_Witness ==
    \E n \in 1..Len(vrects) :
        LET a == RowAt(vrects[n].x0)
            b == RowAt(vrects[n].x1)
        IN /\ b - a >= 3
           /\ current_col[a] = LOW
           /\ current_col[a + 1] = HIGH
           /\ current_col[b - 1] = MEDIUM
           /\ vrects[n].level = HIGH

\* C6: every emitted interval is a maximal run of active rows: it starts at
\* an active row that is the first row or follows a NONE row, it ends at the
\* first NONE row after its start, and every row in between is active.
C6_MaximalRun ==
    \A n \in 1..Len(vrects) :
        \E a, b \in 1..Len(df) :
            /\ a < b
            /\ df[a].time = vrects[n].x0
            /\ df[b].time = vrects[n].x1
            /\ current_col[a] > 0
            /\ (a = 1 \/ current_col[a - 1] = NONE)
            /\ current_col[b] = NONE
            /\ \A k \in a..(b - 1) : current_col[k] > 0
            /\ \A k \in 1..Len(df) :
                  (vrects[n].x0 <= df[k].time /\ df[k].time < vrects[n].x1)
                      => current_col[k] > 0

C6_Witness ==
    /\ Len(vrects) = 2
    /\ RowAt(vrects[1].x0) = 1
    /\ RowAt(vrects[1].x1) = 3
    /\ RowAt(vrects[2].x0) = 4

\* C7: the intervals emitted so far each have start < end, and the end of
\* each is at most the start of the next.
C7_OrderedDisjoint ==
    \A n \in 1..Len(vrects) :
        /\ vrects[n].x0 < vrects[n].x1
        /\ n < Len(vrects) => vrects[n].x1 <= vrects[n + 1].x0

C7_Witness ==
    /\ pc = "scan"
    /\ Len(vrects) = 2
    /\ vrects[1].x1 < vrects[2].x0

\* the scan never fails: closing an interval always selects at least the
\* opening row, the pass ends after the last row, and the empty table yields
\* no interval
C8_ScanSafe ==
    /\ pc # "error"
    /\ (pc = "scan" /\ i <= Len(df) /\ current_col[i] = NONE /\ current_start # None) =>
          \E k \in Window(current_start[1], df[i].time) :
              df[k].time = current_start[1]
    /\ pc = "done" => i = Len(df) + 1
    /\ (pc = "done" /\ Len(df) = 0) => vrects = <<>>

\* C8: the scan has no error path: it never takes the maximum of an empty
\* selection, it emits nothing on the empty table, and every call reaches its
\* end after one pass over the rows.
C8_NoErrorPath == []C8_ScanSafe /\ ((pc = "classify") ~> (pc = "done"))

C8_Witness ==
    /\ pc = "scan"
    /\ i <= Len(df)
    /\ current_col[i] = NONE
    /\ current_start # None
    /\ Cardinality(Window(current_start[1], df[i].time)) = 1

\* C9: a second call on the same table recomputes the same current column
\* and yields the same intervals, in the same order, as the first.
C9_RerunIdentical ==
    run >= 2 =>
        /\ pc # "error"
        /\ pc \in {"scan", "done"} => current_col = prev_col
        /\ pc = "done" => vrects = prev_vrects

C9_Witness ==
    /\ run = 2
    /\ pc = "done"
    /\ Len(vrects) >= 1
    /\ current_start # None
    /\ vrects = prev_vrects

\* C10: every emitted interval has a peak among LOW, MEDIUM, HIGH and is
\* coloured red for HIGH, orange for MEDIUM, yellow for LOW, never the
\* default colour.
C10_ColourOfPeak ==
    \A n \in 1..Len(vrects) :
        /\ vrects[n].level \in {LOW, MEDIUM, HIGH}
        /\ vrects[n].level = HIGH => vrects[n].fillcolor = "#ff0000"
        /\ vrects[n].level = MEDIUM => vrects[n].fillcolor = "#ffa500"
        /\ vrects[n].level = LOW => vrects[n].fillcolor = "#ffff00"
        /\ vrects[n].fillcolor # "#ffffff"

C10_Witness ==
    /\ Len(vrects) = 2
    /\ vrects[1].fillcolor = "#ffa500"
    /\ vrects[2].fillcolor = "#ff0000"

====
